---- MODULE Spec2Model ----
(***************************************************************************)
(* A model of the MySQL slow query log parser of parser.go: the line       *)
(* consumer (Parser.ConsumeLine, Parser.Flush) and the entry parser        *)
(* (parseEntry, parseUserHostLine).                                        *)
(*                                                                         *)
(* Lines are strings, read character by character (Len, SubSeq, \o).  A    *)
(* LogEvent is a function from keys to tagged values <<kind, value>>.  A   *)
(* call ends in one of three ways: it returns nil, it returns an event, or *)
(* it panics (an index out of range).                                      *)
(***************************************************************************)
EXTENDS Integers, Sequences, FiniteSets, TLC

VARIABLES inHeader, inQuery, lines, ret, op, arg, prev, input, outs, trace

vars == <<inHeader, inQuery, lines, ret, op, arg, prev, input, outs, trace>>

(***************************************************************************)
(* Characters and the string functions of package strings.                 *)
(***************************************************************************)
Lower == {"a","b","c","d","e","f","g","h","i","j","k","l","m",
          "n","o","p","q","r","s","t","u","v","w","x","y","z"}

Upper == {"A","B","C","D","E","F","G","H","I","J","K","L","M",
          "N","O","P","Q","R","S","T","U","V","W","X","Y","Z"}

Digit == {"0","1","2","3","4","5","6","7","8","9"}

\* \w of the regular expressions: [0-9A-Za-z_]
WordChar == Lower \cup Upper \cup Digit \cup {"_"}

\* \s of the regular expressions and, over ASCII, the white space of TrimSpace
SpaceChar == {" ", "\t", "\n", "\r", "\f"}

\* s[i-1:j] with the indices cut to the string: "" where they leave it.
Sub(s, i, j) ==
    LET lo == IF i < 1 THEN 1 ELSE i
        hi == IF j > Len(s) THEN Len(s) ELSE j
    IN  IF lo > hi THEN "" ELSE SubSeq(s, lo, hi)

Char(s, i) == Sub(s, i, i)

IsWord(s, i) == i >= 1 /\ i <= Len(s) /\ Char(s, i) \in WordChar

IsSpace(s, i) == i >= 1 /\ i <= Len(s) /\ Char(s, i) \in SpaceChar

IsNonSpace(s, i) == i >= 1 /\ i <= Len(s) /\ Char(s, i) \notin SpaceChar

HasPrefix(s, prefix) ==
    Len(s) >= Len(prefix) /\ Sub(s, 1, Len(prefix)) = prefix

HasSuffix(s, suffix) ==
    Len(s) >= Len(suffix) /\ Sub(s, Len(s) - Len(suffix) + 1, Len(s)) = suffix

\* The 1-based position of the first sep in s at or after from, 0 if none.
RECURSIVE IndexFrom(_, _, _)
IndexFrom(s, sep, from) ==
    IF from + Len(sep) - 1 > Len(s) THEN 0
    ELSE IF Sub(s, from, from + Len(sep) - 1) = sep THEN from
    ELSE IndexFrom(s, sep, from + 1)

\* strings.Split(s, sep) for a non-empty sep: always at least one element.
RECURSIVE Split(_, _)
splitAt(s, sep, at) ==
    IF at = 0 THEN <<s>>
    ELSE <<Sub(s, 1, at - 1)>> \o Split(Sub(s, at + Len(sep), Len(s)), sep)

Split(s, sep) == splitAt(s, sep, IndexFrom(s, sep, 1))

RECURSIVE TrimLeft(_, _)
TrimLeft(s, cutset) ==
    IF Len(s) > 0 /\ Char(s, 1) \in cutset THEN TrimLeft(Sub(s, 2, Len(s)), cutset)
    ELSE s

RECURSIVE TrimRight(_, _)
TrimRight(s, cutset) ==
    IF Len(s) > 0 /\ Char(s, Len(s)) \in cutset THEN TrimRight(Sub(s, 1, Len(s) - 1), cutset)
    ELSE s

TrimSpace(s) == TrimLeft(TrimRight(s, SpaceChar), SpaceChar)

RECURSIVE Join(_, _)
Join(elems, sep) ==
    IF Len(elems) = 0 THEN ""
    ELSE IF Len(elems) = 1 THEN elems[1]
    ELSE elems[1] \o sep \o Join(Tail(elems), sep)

\* The end of the longest run of characters of class at from.. (from - 1 if none).
RECURSIVE RunEnd(_, _, _)
RunEnd(s, from, class) ==
    IF from <= Len(s) /\ Char(s, from) \in class THEN RunEnd(s, from + 1, class)
    ELSE from - 1

RECURSIVE NonSpaceRunEnd(_, _)
NonSpaceRunEnd(s, from) ==
    IF IsNonSpace(s, from) THEN NonSpaceRunEnd(s, from + 1) ELSE from - 1

\* \b holds between the characters at - 1 and at.
WordBoundary(s, at) == IsWord(s, at - 1) # IsWord(s, at)

(***************************************************************************)
(* LogEvent: a map.  Values carry their Go type.                           *)
(***************************************************************************)
EmptyMap == [k \in {} |-> <<>>]

Put(m, k, v) == [x \in DOMAIN m \cup {k} |-> IF x = k THEN v ELSE m[x]]

Delete(m, k) == [x \in DOMAIN m \ {k} |-> m[x]]

\* m[k] of a map[string]string: the zero value "" for a missing key.
Get(m, k) == IF k \in DOMAIN m THEN m[k] ELSE ""

StringValue(m) == [k \in DOMAIN m |-> <<"string", m[k]>>]

\* for k, v := range fields { event[k] = v }
Merge(event, fields) ==
    [k \in DOMAIN event \cup DOMAIN fields |->
        IF k \in DOMAIN fields THEN fields[k] ELSE event[k]]

\* What a call yields: nil, a LogEvent, or a panic.
Nil == [kind |-> "nil", event |-> EmptyMap]

Panic == [kind |-> "panic", event |-> EmptyMap]

Event(m) == [kind |-> "event", event |-> m]

(***************************************************************************)
(* userHostAttributesRe:                                                   *)
(*   \b(User@Host: \S+\[\w+\]+ @ (?:)(\w+)? \[\S*\])|(Id:.+)               *)
(* Every piece of the first alternative is forced by the text around it,   *)
(* so a match starting at a given place has one possible end.  A matcher   *)
(* yields the index of the last character matched, 0 for no match.         *)
(***************************************************************************)
\* The start of the longest run of characters of class ending at to, not before low.
RECURSIVE RunStart(_, _, _, _)
RunStart(s, to, low, class) ==
    IF to >= low /\ Char(s, to) \in class THEN RunStart(s, to - 1, low, class)
    ELSE to + 1

\* The last index in from..to whose character is c, 0 if none.
RECURSIVE LastIndexIn(_, _, _, _)
LastIndexIn(s, c, from, to) ==
    IF to < from THEN 0
    ELSE IF Char(s, to) = c THEN to
    ELSE LastIndexIn(s, c, from, to - 1)

UserHostLiteral == "User@Host: "

\* (\w+)? \[\S*\] : the host is a whole word run ending at hostEnd (none when
\* hostEnd is before its start), \S* runs to the last "]" of the run of non-space.
hostAndIPMatch(s, hostEnd) ==
    IF Sub(s, hostEnd + 1, hostEnd + 2) = " ["
    THEN LastIndexIn(s, "]", hostEnd + 3, NonSpaceRunEnd(s, hostEnd + 3))
    ELSE 0

\* \[\w+ before the closing brackets: the word run starts at word.
idWordMatch(s, a, close, word) ==
    word <= close - 1 /\ word - 1 > a /\ Char(s, word - 1) = "["

\* \S+\[\w+\]+ in a..userEnd: the closing brackets start at close.
userTokenMatch(s, a, userEnd, close) ==
    close <= userEnd /\ idWordMatch(s, a, close, RunStart(s, close - 1, a, WordChar))

\* \S+\[\w+\]+ @ (\w+)? \[\S*\] from a: \S+\[\w+\]+ is followed by a space,
\* so it is the whole run of non-space a..userEnd.
userHostRest(s, a, userEnd) ==
    IF /\ Sub(s, userEnd + 1, userEnd + 3) = " @ "
       /\ userTokenMatch(s, a, userEnd, RunStart(s, userEnd, a, {"]"}))
    THEN hostAndIPMatch(s, RunEnd(s, userEnd + 4, WordChar))
    ELSE 0

\* \b(User@Host: \S+\[\w+\]+ @ (?:)(\w+)? \[\S*\]) at p.
UserHostMatchEnd(s, p) ==
    IF WordBoundary(s, p) /\ Sub(s, p, p + Len(UserHostLiteral) - 1) = UserHostLiteral
    THEN userHostRest(s, p + Len(UserHostLiteral),
                      NonSpaceRunEnd(s, p + Len(UserHostLiteral)))
    ELSE 0

\* .+ from from, where nl is the first newline at or after from (0 for none).
idRest(s, from, nl) ==
    IF from > Len(s) \/ nl = from THEN 0
    ELSE IF nl = 0 THEN Len(s) ELSE nl - 1

\* (Id:.+) at p: . is any character but a newline, + is greedy.
IdMatchEnd(s, p) ==
    IF Sub(s, p, p + 2) = "Id:" THEN idRest(s, p + 3, IndexFrom(s, "\n", p + 3)) ELSE 0

\* a|b at one place: the first alternative that matches.
firstAlternative(e1, e2) == IF e1 > 0 THEN e1 ELSE e2

\* userHostAttributesRe.FindAllString(s, -1), searching from p: the matches
\* are the leftmost ones and do not overlap.
RECURSIVE UserHostFindAll(_, _)
userHostFound(s, p, e) ==
    IF e > 0 THEN <<Sub(s, p, e)>> \o UserHostFindAll(s, e + 1)
    ELSE UserHostFindAll(s, p + 1)

UserHostFindAll(s, p) ==
    IF p > Len(s) THEN <<>>
    ELSE userHostFound(s, p, firstAlternative(UserHostMatchEnd(s, p), IdMatchEnd(s, p)))

(***************************************************************************)
(* attributesRe:  \b([\w_]+:\s+[^\s]+)\b                                   *)
(* The name is a whole word, the white space a whole run, and the value    *)
(* the longest run of non-space that ends at a word boundary.              *)
(***************************************************************************)
\* The last index e in from..to with \b after it, 0 if none.
RECURSIVE LastBoundaryIn(_, _, _)
LastBoundaryIn(s, from, to) ==
    IF to < from THEN 0
    ELSE IF WordBoundary(s, to + 1) THEN to
    ELSE LastBoundaryIn(s, from, to - 1)

\* \s+[^\s]+\b from from, the white space ending at spaceEnd.
attributeSpaceMatch(s, from, spaceEnd) ==
    IF spaceEnd >= from
    THEN LastBoundaryIn(s, spaceEnd + 1, NonSpaceRunEnd(s, spaceEnd + 1))
    ELSE 0

\* [\w_]+:\s+[^\s]+\b at p, the word run ending at nameEnd.
attributeNameMatch(s, p, nameEnd) ==
    IF nameEnd >= p /\ Char(s, nameEnd + 1) = ":"
    THEN attributeSpaceMatch(s, nameEnd + 2, RunEnd(s, nameEnd + 2, SpaceChar))
    ELSE 0

AttributesMatchEnd(s, p) ==
    IF WordBoundary(s, p) THEN attributeNameMatch(s, p, RunEnd(s, p, WordChar)) ELSE 0

\* attributesRe.FindAllString(s, -1), searching from p.
RECURSIVE AttributesFindAll(_, _)
attributesFound(s, p, e) ==
    IF e > 0 THEN <<Sub(s, p, e)>> \o AttributesFindAll(s, e + 1)
    ELSE AttributesFindAll(s, p + 1)

AttributesFindAll(s, p) ==
    IF p > Len(s) THEN <<>> ELSE attributesFound(s, p, AttributesMatchEnd(s, p))

(***************************************************************************)
(* parseUserHostLine.  An index expression on a slice that is too short    *)
(* panics.                                                                 *)
(***************************************************************************)
Panicked(event) == [panic |-> TRUE, event |-> event]

Done(event) == [panic |-> FALSE, event |-> event]

\* if len(event["IP"]) == 0 { delete(event, "IP") }
dropEmptyIP(event) ==
    IF Len(Get(event, "IP")) = 0 THEN Delete(event, "IP") ELSE event

\* if len(event["Host"]) == 0 { ... }
hostFallback(event) ==
    IF Len(Get(event, "Host")) = 0
    THEN IF Len(Get(event, "IP")) > 0 THEN Put(event, "Host", Get(event, "IP"))
         ELSE Delete(event, "Host")
    ELSE event

\* event["Host"] and event["IP"] from strings.Split(userHostParts[1], "[")
setHostIP(event, hostParts) ==
    IF Len(hostParts) < 2 THEN Panicked(event)
    ELSE Done(hostFallback(dropEmptyIP(
             Put(Put(event, "Host", TrimSpace(hostParts[1])),
                 "IP", TrimRight(TrimSpace(hostParts[2]), {"]"})))))

\* event["User"], then the host and the IP, from strings.Split(parts[1], "@")
setUserHost(event, userHostParts) ==
    IF Len(userHostParts) < 2 THEN Panicked(event)
    ELSE setHostIP(Put(event, "User", TrimSpace(Split(userHostParts[1], "[")[1])),
                   Split(userHostParts[2], "["))

\* switch parts[0] { case "User@Host": ... }
userHostCase(event, parts) ==
    IF parts[1] # "User@Host" THEN Done(event)
    ELSE IF Len(parts) < 2 THEN Panicked(event)
    ELSE setUserHost(event, Split(parts[2], "@"))

\* for _, match := range matches { ... }, from the k-th match on.
RECURSIVE userHostMatches(_, _, _)
userHostNext(matches, k, r) ==
    IF r.panic THEN r ELSE userHostMatches(matches, k + 1, r.event)

userHostMatches(matches, k, event) ==
    IF k > Len(matches) THEN Done(event)
    ELSE userHostNext(matches, k, userHostCase(event, Split(matches[k], ": ")))

parseUserHostLine(line) ==
    userHostMatches(UserHostFindAll(line, 1), 1, EmptyMap)

(***************************************************************************)
(* strconv and time.  Numerals of the model are short: they fit TLC's      *)
(* integers and never leave the range of int64.                            *)
(***************************************************************************)
DigitString == <<"0","1","2","3","4","5","6","7","8","9">>

DigitValue(c) == (CHOOSE d \in 1..Len(DigitString) : DigitString[d] = c) - 1

AllDigits(s) == Len(s) > 0 /\ \A i \in 1..Len(s) : Char(s, i) \in Digit

RECURSIVE Decimal(_)
Decimal(s) ==
    IF Len(s) = 0 THEN 0
    ELSE Decimal(Sub(s, 1, Len(s) - 1)) * Len(DigitString) + DigitValue(Char(s, Len(s)))

Unsigned(s) == IF Char(s, 1) \in {"+", "-"} THEN Sub(s, 2, Len(s)) ELSE s

Parsed(v) == [err |-> FALSE, v |-> v]

SyntaxError == [err |-> TRUE, v |-> 0]

\* strconv.ParseInt(s, 10, 64): an optional sign and decimal digits.
parseDigits(negative, digits) ==
    IF ~AllDigits(digits) THEN SyntaxError
    ELSE IF negative THEN Parsed(0 - Decimal(digits)) ELSE Parsed(Decimal(digits))

ParseInt(s) == parseDigits(Char(s, 1) = "-", Unsigned(s))

\* The first index of an exponent letter in u, Len(u) + 1 if none.
RECURSIVE ExponentAt(_, _)
ExponentAt(u, i) ==
    IF i > Len(u) \/ Char(u, i) \in {"e", "E"} THEN i ELSE ExponentAt(u, i + 1)

\* digits with at most one point and at least one digit
mantissaOk(parts) ==
    /\ Len(parts) <= 2
    /\ \A i \in 1..Len(parts) : parts[i] = "" \/ AllDigits(parts[i])
    /\ \E i \in 1..Len(parts) : parts[i] # ""

floatOk(u, expAt) ==
    /\ mantissaOk(Split(Sub(u, 1, expAt - 1), "."))
    /\ expAt > Len(u) \/ AllDigits(Unsigned(Sub(u, expAt + 1, Len(u))))

\* strconv.ParseFloat(s, 64) on decimal numerals: an optional sign, a
\* mantissa, an optional exponent.  The float64 is kept as its numeral.
\* (Hexadecimal numerals, Inf and NaN are not among the inputs.)
parseDecimalFloat(s, u) == IF floatOk(u, ExponentAt(u, 1)) THEN Parsed(s) ELSE SyntaxError

ParseFloat(s) == parseDecimalFloat(s, Unsigned(s))

\* strconv.ParseBool
ParseBool(s) ==
    IF s \in {"1", "t", "T", "TRUE", "true", "True"} THEN Parsed(TRUE)
    ELSE IF s \in {"0", "f", "F", "FALSE", "false", "False"} THEN Parsed(FALSE)
    ELSE SyntaxError

Pad2(n) == DigitString[((n \div 10) % 10) + 1] \o DigitString[(n % 10) + 1]

Pad4(n) == Pad2(n \div 100) \o Pad2(n % 100)

\* The civil date of a day of the era (Gregorian calendar, eras of 400 years
\* starting on 1 March), as "2006-01-02".
dateOfYearDay(era, yoe, doy, mp) ==
    Pad4(yoe + era * 400 + (IF mp < 10 THEN 0 ELSE 1)) \o "-" \o
    Pad2(IF mp < 10 THEN mp + 3 ELSE mp - 9) \o "-" \o
    Pad2(doy - (153 * mp + 2) \div 5 + 1)

dateOfYear(era, doe, yoe) ==
    dateOfYearDay(era, yoe, doe - (365 * yoe + yoe \div 4 - yoe \div 100),
                  (5 * (doe - (365 * yoe + yoe \div 4 - yoe \div 100)) + 2) \div 153)

dateOfEraDay(era, doe) ==
    dateOfYear(era, doe,
               (doe - doe \div 1460 + doe \div 36524 - doe \div 146096) \div 365)

FormatDate(days) == dateOfEraDay((days + 719468) \div 146097, (days + 719468) % 146097)

FormatClock(rem) ==
    Pad2(rem \div 3600) \o ":" \o Pad2((rem % 3600) \div 60) \o ":" \o Pad2(rem % 60)

\* time.Unix(sec, 0).Format("2006-01-02 15:04:05"), with Local = UTC and a
\* year in 0000..9999.
FormatUnix(sec) == FormatDate(sec \div 86400) \o " " \o FormatClock(sec % 86400)

(***************************************************************************)
(* The attribute type table.  attributeTypes and the attributeType         *)
(* constants are declared outside parser.go; the table is taken from the   *)
(* attribute names and types the specification gives, and a name that is   *)
(* not in the table has none of the four types (the attribute is dropped). *)
(***************************************************************************)
attributeTypeTable ==
    [Query_time |-> "float", Lock_time |-> "float",
     Rows_sent |-> "int", Rows_examined |-> "int"]

attributeTypes(name) ==
    IF name \in DOMAIN attributeTypeTable THEN attributeTypeTable[name] ELSE "none"

(***************************************************************************)
(* parseEntry, in its three loops.  Indices are Go's (from 0): lines[i] of *)
(* the source is ls[i + 1] here.                                           *)
(***************************************************************************)
\* attributeValue stays nil
NilValue == [panic |-> FALSE, nil |-> TRUE, value |-> <<>>]

\* v, err := strconv.Parse...; if err == nil { attributeValue = v }
typedValue(kind, parsed) ==
    IF parsed.err THEN NilValue
    ELSE [panic |-> FALSE, nil |-> FALSE, value |-> <<kind, parsed.v>>]

\* The switch on attributeTypes[parts[0]]: every case reads parts[1], which
\* panics when the match held no ": ".
attributeValue(type, parts) ==
    IF type \notin {"string", "bool", "float", "int"} THEN NilValue
    ELSE IF Len(parts) < 2 THEN [panic |-> TRUE, nil |-> TRUE, value |-> <<>>]
    ELSE IF type = "string" THEN typedValue("string", Parsed(parts[2]))
    ELSE IF type = "bool" THEN typedValue("bool", ParseBool(parts[2]))
    ELSE IF type = "float" THEN typedValue("float64", ParseFloat(parts[2]))
    ELSE typedValue("int64", ParseInt(parts[2]))

\* for _, match := range matches { ... } of a comment line, from the k-th match on.
RECURSIVE attributeMatches(_, _, _)
attributeNext(matches, k, event, name, a) ==
    IF a.panic THEN Panicked(event)
    ELSE IF a.nil THEN attributeMatches(matches, k + 1, event)
    ELSE attributeMatches(matches, k + 1, Put(event, name, a.value))

attributeOf(matches, k, event, parts) ==
    attributeNext(matches, k, event, parts[1],
                  attributeValue(attributeTypes(parts[1]), parts))

attributeMatches(matches, k, event) ==
    IF k > Len(matches) THEN Done(event)
    ELSE attributeOf(matches, k, event, Split(matches[k], ": "))

\* for k, v := range fields { event[k] = v }
mergeFields(event, fields) ==
    IF fields.panic THEN Panicked(event)
    ELSE Done(Merge(event, StringValue(fields.event)))

\* for i, line = range lines { ... }: the comment lines, from index k on.  i is
\* the index the loop stops at: that of the line it breaks on, or of the last
\* line when it runs to the end (0 for no lines).
RECURSIVE headerLoop(_, _, _)
headerNext(ls, k, r) ==
    IF r.panic THEN [panic |-> TRUE, i |-> k, event |-> r.event]
    ELSE headerLoop(ls, k + 1, r.event)

headerLine(ls, k, event, line) ==
    IF line = "" THEN headerLoop(ls, k + 1, event)
    ELSE IF Char(line, 1) # "#" THEN [panic |-> FALSE, i |-> k, event |-> event]
    ELSE IF HasPrefix(line, "# User@Host")
         THEN headerNext(ls, k, mergeFields(event, parseUserHostLine(line)))
    ELSE headerNext(ls, k, attributeMatches(AttributesFindAll(line, 1), 1, event))

headerLoop(ls, k, event) ==
    IF k >= Len(ls)
    THEN [panic |-> FALSE, i |-> IF Len(ls) = 0 THEN 0 ELSE Len(ls) - 1, event |-> event]
    ELSE headerLine(ls, k, event, ls[k + 1])

\* event["Timestamp"]: the text after "=", formatted when it is an integer.
formatTimestamp(unixTimestampString, n) ==
    IF n.err THEN unixTimestampString ELSE FormatUnix(n.v)

timestampText(unixTimestampString) ==
    formatTimestamp(unixTimestampString, ParseInt(unixTimestampString))

timestampOf(line) == timestampText(TrimRight(Split(line, "=")[2], {";", "\n"}))

\* for ; i < len(lines); i++ { ... }: the use and SET lines.
RECURSIVE skipLoop(_, _, _)
skipLine(ls, i, event, line) ==
    IF HasPrefix(line, "use ")
    THEN skipLoop(ls, i + 1,
             Put(event, "Database", <<"string", TrimRight(Split(line, " ")[2], {";", "\n"})>>))
    ELSE IF HasPrefix(line, "SET ")
         THEN IF HasPrefix(line, "SET timestamp=")
              THEN skipLoop(ls, i + 1, Put(event, "Timestamp", <<"string", timestampOf(line)>>))
              ELSE skipLoop(ls, i + 1, event)
    ELSE [i |-> i, event |-> event]

skipLoop(ls, i, event) ==
    IF i >= Len(ls) THEN [i |-> i, event |-> event] ELSE skipLine(ls, i, event, ls[i + 1])

\* for ; i < len(lines); i++ { ... }: the lines of the statement.
RECURSIVE queryLoop(_, _)
queryLoop(ls, i) ==
    IF i >= Len(ls) THEN <<>>
    ELSE IF HasSuffix(ls[i + 1], "started with:\n") THEN <<>>
    ELSE <<ls[i + 1]>> \o queryLoop(ls, i + 1)

\* A variant that sets Statement only when the block has statement lines.
setStatementIfAny(event, queryLines) ==
    IF queryLines = <<>> THEN event
    ELSE Put(event, "Statement", <<"string", TrimSpace(Join(queryLines, "\n"))>>)

\* event["Statement"] = strings.TrimSpace(strings.Join(queryLines, "\n"))
setStatement(event, queryLines) ==
    Put(event, "Statement", <<"string", TrimSpace(Join(queryLines, "\n"))>>)

entryStatement(ls, c) == Event(setStatement(c.event, queryLoop(ls, c.i)))

entryAfterHeader(ls, h) ==
    IF h.panic THEN Panic ELSE entryStatement(ls, skipLoop(ls, h.i, h.event))

parseEntry(ls) == entryAfterHeader(ls, headerLoop(ls, 0, EmptyMap))

(***************************************************************************)
(* The Parser.  A call maps the parser [inHeader, inQuery, lines] to the   *)
(* parser it leaves and what it yields; a panic in parseEntry leaves the   *)
(* parser as it was, since every assignment follows the call.              *)
(***************************************************************************)
Parser == [inHeader |-> inHeader, inQuery |-> inQuery, lines |-> lines]

\* &Parser{}: the zero value.
NewParser == [inHeader |-> FALSE, inQuery |-> FALSE, lines |-> <<>>]

\* The call leaves the parser p and yields r.
Yield(p, r) == [inHeader |-> p.inHeader, inQuery |-> p.inQuery, lines |-> p.lines, ret |-> r]

\* A variant that keeps the lines of the block it closes in the buffer.
sectionEndKeep(p, line, event) ==
    IF event.kind = "panic" THEN Yield(p, Panic)
    ELSE [inHeader |-> TRUE, inQuery |-> FALSE, lines |-> Append(p.lines, line), ret |-> event]

\* "We're in a new section": event is the block parsed; the buffer restarts with line.
sectionEnd(p, line, event) ==
    IF event.kind = "panic" THEN Yield(p, Panic)
    ELSE [inHeader |-> TRUE, inQuery |-> FALSE, lines |-> <<line>>, ret |-> event]

newSection(p, line) == sectionEnd(p, line, parseEntry(p.lines))

\* A variant that buffers an empty line met outside the query body.
consumeEmptyBuffered(p, line) ==
    IF p.inQuery THEN newSection(p, line)
    ELSE [inHeader |-> p.inHeader, inQuery |-> p.inQuery,
          lines |-> Append(p.lines, line), ret |-> Nil]

\* if line == "" { ... }
consumeEmpty(p, line) ==
    IF p.inQuery THEN newSection(p, line) ELSE Yield(p, Nil)

\* A variant that restarts the buffer at each comment line.
consumeCommentRestart(p, line) ==
    IF p.inQuery THEN newSection(p, line)
    ELSE [inHeader |-> TRUE, inQuery |-> p.inQuery, lines |-> <<line>>, ret |-> Nil]

\* if strings.HasPrefix(line, "#") { ... }
consumeComment(p, line) ==
    IF p.inQuery THEN newSection(p, line)
    ELSE [inHeader |-> TRUE, inQuery |-> p.inQuery, lines |-> Append(p.lines, line), ret |-> Nil]

\* A variant that tests !p.inQuery in place of p.inHeader: a new parser
\* buffers its first line.
consumeOtherUnlessQuery(p, line) ==
    IF ~p.inQuery
    THEN [inHeader |-> FALSE, inQuery |-> TRUE, lines |-> Append(p.lines, line), ret |-> Nil]
    ELSE [inHeader |-> p.inHeader, inQuery |-> p.inQuery,
          lines |-> Append(p.lines, line), ret |-> Nil]

\* A variant that leaves inHeader set when the query body starts.
consumeOtherKeepHeader(p, line) ==
    IF p.inHeader
    THEN [inHeader |-> p.inHeader, inQuery |-> TRUE, lines |-> Append(p.lines, line), ret |-> Nil]
    ELSE IF p.inQuery
         THEN [inHeader |-> p.inHeader, inQuery |-> p.inQuery,
               lines |-> Append(p.lines, line), ret |-> Nil]
         ELSE Yield(p, Nil)

\* A variant that starts the query body on a buffer of its own, without the
\* lines buffered in Idle/Header.
consumeOtherAlone(p, line) ==
    IF p.inHeader
    THEN [inHeader |-> FALSE, inQuery |-> TRUE, lines |-> <<line>>, ret |-> Nil]
    ELSE IF p.inQuery
         THEN [inHeader |-> p.inHeader, inQuery |-> p.inQuery,
               lines |-> Append(p.lines, line), ret |-> Nil]
         ELSE Yield(p, Nil)

\* "Not a comment line"
consumeOther(p, line) ==
    IF p.inHeader
    THEN [inHeader |-> FALSE, inQuery |-> TRUE, lines |-> Append(p.lines, line), ret |-> Nil]
    ELSE IF p.inQuery
         THEN [inHeader |-> p.inHeader, inQuery |-> p.inQuery,
               lines |-> Append(p.lines, line), ret |-> Nil]
         ELSE Yield(p, Nil)

consumeLine(p, line) ==
    IF line = "" THEN consumeEmpty(p, line)
    ELSE IF HasPrefix(line, "#") THEN consumeComment(p, line)
    ELSE consumeOther(p, line)

\* event := parseEntry(p.lines); p.lines = p.lines[:0]; return event
flushEnd(p, event) ==
    IF event.kind = "panic" THEN Yield(p, Panic)
    ELSE [inHeader |-> p.inHeader, inQuery |-> p.inQuery, lines |-> <<>>, ret |-> event]

\* A variant without the test of p.inQuery.
flushAlways(p) == flushEnd(p, parseEntry(p.lines))

flush(p) ==
    IF ~p.inQuery THEN Yield(p, Nil) ELSE flushEnd(p, parseEntry(p.lines))

(***************************************************************************)
(* Where the buffered lines come from.  A trace numbers the lines fed from *)
(* 1: held are the numbers of the lines in the buffer, blocks the numbers  *)
(* of the lines of each block that came back as a record, in order, and    *)
(* stored the numbers of all lines ever buffered.                          *)
(***************************************************************************)
NoTrace == [held |-> <<>>, blocks |-> <<>>, stored |-> {}]

\* ConsumeLine of line number n took the parser p to r.
traceConsumeLine(t, p, r, n) ==
    IF r.ret.kind = "panic" THEN t
    ELSE IF r.ret.kind = "event"
         THEN [held |-> <<n>>, blocks |-> Append(t.blocks, t.held),
               stored |-> t.stored \cup {n}]
         ELSE IF Len(r.lines) = Len(p.lines) + 1
              THEN [held |-> Append(t.held, n), blocks |-> t.blocks,
                    stored |-> t.stored \cup {n}]
              ELSE t

\* Flush took the parser to r.
traceFlush(t, r) ==
    IF r.ret.kind = "event"
    THEN [held |-> <<>>, blocks |-> Append(t.blocks, t.held), stored |-> t.stored]
    ELSE t

(***************************************************************************)
(* The lines a caller feeds, and the bounds.                               *)
(***************************************************************************)
\* The most lines the buffer holds.
MaxLines == 4

CommentLines ==
    {"# User@Host: r[r] @ h [1]",
     "# User@Host: a@b@c[r] @ h []",
     "# Query_time: 0.5 Rows_sent: 1",
     "# Query_time:\t0.5"}

OtherLines == {"use d;", "SET timestamp=5;", "SELECT 1", "x started with:"}

Lines == {""} \cup CommentLines \cup OtherLines

(***************************************************************************)
(* Spec: one parser, any sequence of ConsumeLine and Flush calls.  A panic *)
(* ends the run.                                                           *)
(***************************************************************************)
Init ==
    /\ inHeader = NewParser.inHeader
    /\ inQuery = NewParser.inQuery
    /\ lines = NewParser.lines
    /\ ret = Nil
    /\ op = "init"
    /\ arg = ""
    /\ prev = NewParser
    /\ input = <<>>
    /\ outs = <<>>
    /\ trace = NoTrace

\* The call name(line) leaves the parser as r says and yields r.ret; the
\* buffer is held to at most cap lines.
Call(name, line, r, cap) ==
    /\ ret.kind # "panic"
    /\ Len(r.lines) <= cap
    /\ inHeader' = r.inHeader
    /\ inQuery' = r.inQuery
    /\ lines' = r.lines
    /\ ret' = r.ret
    /\ op' = name
    /\ arg' = line
    /\ prev' = Parser

ConsumeLine(line) ==
    /\ Call("ConsumeLine", line, consumeLine(Parser, line), MaxLines)
    /\ UNCHANGED <<input, outs, trace>>

Flush ==
    /\ Call("Flush", "", flush(Parser), MaxLines)
    /\ UNCHANGED <<input, outs, trace>>

Next ==
    \/ \E line \in Lines : ConsumeLine(line)
    \/ Flush

Spec == Init /\ [][Next]_vars

(***************************************************************************)
(* SpecStream: a stream of two blocks separated by one empty line, fed to  *)
(* a new parser one line at a time and ended by one Flush.  outs holds     *)
(* what each call yielded, in order.                                       *)
(***************************************************************************)
\* The most comment lines, and the most other lines, of a block of the stream.
MaxHeader == 2

MaxBody == 2

StreamComments ==
    {"# User@Host: r[r] @ h [1]",
     "# User@Host: a@b@c[r] @ h []",
     "# Query_time: 0.5 Rows_sent: 1"}

StreamOthers == {"SET timestamp=5;", "SELECT 1"}

SeqsUpTo(S, n) == UNION {[1..k -> S] : k \in 1..n}

Blocks ==
    {hs \o bs : hs \in SeqsUpTo(StreamComments, MaxHeader),
                bs \in SeqsUpTo(StreamOthers, MaxBody)}

Streams == {b1 \o <<"">> \o b2 : b1 \in Blocks, b2 \in Blocks}

InitStream ==
    /\ inHeader = NewParser.inHeader
    /\ inQuery = NewParser.inQuery
    /\ lines = NewParser.lines
    /\ ret = Nil
    /\ op = "init"
    /\ arg = ""
    /\ prev = NewParser
    /\ input \in Streams
    /\ outs = <<>>
    /\ trace = NoTrace

\* The next line of the stream.
NextLine == input[Len(outs) + 1]

Feed ==
    /\ Len(outs) < Len(input)
    /\ Call("ConsumeLine", NextLine, consumeLine(Parser, NextLine), Len(input))
    /\ outs' = Append(outs, ret')
    /\ UNCHANGED <<input, trace>>

FinalFlush ==
    /\ Len(outs) = Len(input)
    /\ Call("Flush", "", flush(Parser), Len(input))
    /\ outs' = Append(outs, ret')
    /\ UNCHANGED <<input, trace>>

NextStream == Feed \/ FinalFlush

SpecStream == InitStream /\ [][NextStream]_vars

(***************************************************************************)
(* SpecUserHost: parseUserHostLine applied to a "# User@Host" line written *)
(* from the fields input = <<user, id, host, ip>>.                         *)
(***************************************************************************)
UserNames == {"r", "root", "a@b", "a@b@c"}

UserIds == {"r", "1"}

HostNames == {"", "h", "localhost"}

IPs == {"", "1", "127.0.0.1"}

UserHostLine(f) ==
    "# User@Host: " \o f[1] \o "[" \o f[2] \o "] @ " \o f[3] \o " [" \o f[4] \o "]"

InitUserHost ==
    /\ inHeader = NewParser.inHeader
    /\ inQuery = NewParser.inQuery
    /\ lines = NewParser.lines
    /\ ret = Nil
    /\ op = "init"
    /\ arg = ""
    /\ prev = NewParser
    /\ input \in UserNames \X UserIds \X HostNames \X IPs
    /\ outs = <<>>
    /\ trace = NoTrace

\* What parseUserHostLine yields: its map, as an event, or a panic.
fieldsYield(fields) ==
    IF fields.panic THEN Panic ELSE Event(StringValue(fields.event))

ParseUserHostLine ==
    /\ op = "init"
    /\ ret' = fieldsYield(parseUserHostLine(UserHostLine(input)))
    /\ op' = "parseUserHostLine"
    /\ arg' = UserHostLine(input)
    /\ UNCHANGED <<inHeader, inQuery, lines, prev, input, outs, trace>>

NextUserHost == ParseUserHostLine

SpecUserHost == InitUserHost /\ [][NextUserHost]_vars

(***************************************************************************)
(* SpecFeed: any lines fed to a new parser one at a time, then one Flush.  *)
(* input holds the lines fed so far, outs what each call yielded, and      *)
(* trace where the buffered lines come from.                               *)
(***************************************************************************)
\* The most lines fed.
MaxFed == 5

FedLines ==
    {"",
     "# User@Host: a@b@c[r] @ h []",
     "# Query_time: 0.5 Rows_sent: 1",
     "use d;",
     "SELECT 1"}

InitFeed ==
    /\ inHeader = NewParser.inHeader
    /\ inQuery = NewParser.inQuery
    /\ lines = NewParser.lines
    /\ ret = Nil
    /\ op = "init"
    /\ arg = ""
    /\ prev = NewParser
    /\ input = <<>>
    /\ outs = <<>>
    /\ trace = NoTrace

FeedLine(line) ==
    /\ op # "Flush"
    /\ Len(input) < MaxFed
    /\ Call("ConsumeLine", line, consumeLine(Parser, line), MaxFed)
    /\ input' = Append(input, line)
    /\ outs' = Append(outs, ret')
    /\ trace' = traceConsumeLine(trace, Parser, consumeLine(Parser, line), Len(input) + 1)

EndFlush ==
    /\ op # "Flush"
    /\ Call("Flush", "", flush(Parser), MaxFed)
    /\ outs' = Append(outs, ret')
    /\ trace' = traceFlush(trace, flush(Parser))
    /\ UNCHANGED input

NextFeed ==
    \/ \E line \in FedLines : FeedLine(line)
    \/ EndFlush

SpecFeed == InitFeed /\ [][NextFeed]_vars

(***************************************************************************)
(* The claims.  op, arg, prev and ret describe the last call: its name,    *)
(* its line, the parser before it and what it yielded.                     *)
(***************************************************************************)
IsComment(line) == HasPrefix(line, "#")

IsOther(line) == line # "" /\ ~HasPrefix(line, "#")

\* The parser is as the last call found it.
ParserUnchanged == Parser = prev

\* C1: ConsumeLine never raises: every call completes and yields nothing or
\* one LogEvent, whatever '#' lines the block it finalizes holds.
C1_ConsumeLineNeverRaises ==
    op = "ConsumeLine" => ret.kind \in {"nil", "event"}

\* C2: of a stream of two blocks separated by one empty line, no call before
\* the empty line yields a record, the call of the empty line yields the
\* first block's record, no call of the second block yields a record, and
\* the final Flush yields the second block's record.
Separator == CHOOSE i \in 1..Len(input) : input[i] = ""

C2_TwoBlockStream ==
    \A k \in 1..Len(outs) :
        /\ k < Separator => outs[k] = Nil
        /\ k = Separator =>
               /\ outs[k].kind = "event"
               /\ outs[k] = parseEntry(SubSeq(input, 1, Separator - 1))
        /\ (k > Separator /\ k <= Len(input)) => outs[k] = Nil
        /\ k = Len(input) + 1 =>
               /\ outs[k].kind = "event"
               /\ outs[k] = parseEntry(SubSeq(input, Separator + 1, Len(input)))

\* C3, as claimed: the first non-empty line not starting with '#' that a new
\* parser receives is buffered and switches the parser to QueryBody.
C3_FirstLineBuffered ==
    (op = "ConsumeLine" /\ prev = NewParser /\ IsOther(arg)) =>
        /\ inQuery
        /\ lines = <<arg>>

\* C3, amended: a new parser has both flags false and an empty buffer, and
\* while both flags are false a non-empty line not starting with '#' is
\* ignored (nothing buffered, nothing yielded, flags unchanged); with inHeader
\* true such a line is buffered and switches the parser to QueryBody.
C3_FirstLineIgnoredUntilHeader ==
    /\ op = "init" => (~inHeader /\ ~inQuery /\ lines = <<>>)
    /\ (op = "ConsumeLine" /\ IsOther(arg) /\ ~prev.inHeader /\ ~prev.inQuery) =>
           (ret = Nil /\ ParserUnchanged)
    /\ (op = "ConsumeLine" /\ IsOther(arg) /\ prev.inHeader) =>
           /\ ret = Nil
           /\ inQuery /\ ~inHeader
           /\ lines = Append(prev.lines, arg)

\* A new parser was given a non-empty line not starting with '#'.
C3_Witness ==
    op = "ConsumeLine" /\ IsOther(arg) /\ prev = NewParser /\ lines = <<>>

\* C4: Flush when the parser is not in QueryBody is a no-op: it yields no
\* record and leaves the buffer and both flags as they were.
C4_FlushOutsideQueryIsNoop ==
    (op = "Flush" /\ ~prev.inQuery) => (ret = Nil /\ ParserUnchanged)

\* Flush was called with header lines buffered and no query body.
C4_Witness ==
    /\ op = "Flush" /\ ~prev.inQuery /\ prev.inHeader
    /\ \E k \in 1..Len(lines) : IsComment(lines[k])

\* C5: inHeader and inQuery are never both true.
C5_NeverBothModes == ~(inHeader /\ inQuery)

\* The parser went from Idle/Header to QueryBody, and from QueryBody back.
C5_Witness ==
    \/ op = "ConsumeLine" /\ prev.inHeader /\ inQuery
    \/ op = "ConsumeLine" /\ prev.inQuery /\ inHeader

\* The block holds no statement line: each line is empty, a comment, or a
\* use or SET line.
NoStatementLines(block) ==
    \A k \in 1..Len(block) :
        \/ block[k] = ""
        \/ IsComment(block[k])
        \/ HasPrefix(block[k], "use ")
        \/ HasPrefix(block[k], "SET ")

\* C6: every LogEvent yielded holds the key Statement, which is the empty
\* string when the block has no statement lines.
C6_StatementAlwaysPresent ==
    ret.kind = "event" =>
        /\ "Statement" \in DOMAIN ret.event
        /\ ret.event["Statement"][1] = "string"
        /\ NoStatementLines(prev.lines) => ret.event["Statement"][2] = ""

\* A block of a comment line and context lines only was finalized.
C6_Witness ==
    /\ ret.kind = "event"
    /\ Len(prev.lines) > 1
    /\ NoStatementLines(prev.lines)

\* The index (from 0) of the first line of the statement body of a block.
BodyStart(block) == skipLoop(block, headerLoop(block, 0, EmptyMap).i, EmptyMap).i

\* The body lines that end with the rotation marker.
Markers(block) ==
    {k \in (BodyStart(block) + 1)..Len(block) : HasSuffix(block[k], "started with:")}

FirstMarker(block) == CHOOSE k \in Markers(block) : \A m \in Markers(block) : k <= m

\* C7: when a body line ends with "started with:", that line and every line
\* after it are left out of Statement: only the body lines before it are joined.
C7_RotationMarkerExcluded ==
    (ret.kind = "event" /\ Markers(prev.lines) # {}) =>
        ret.event["Statement"] =
            <<"string",
              TrimSpace(Join(SubSeq(prev.lines, BodyStart(prev.lines) + 1,
                                    FirstMarker(prev.lines) - 1), "\n"))>>

\* C8: for a "# User@Host" line that matches the pattern, IP is present iff
\* the bracketed value is non-empty; Host is the host name when that is
\* non-empty, the IP when the host name is empty and the IP is not, and absent
\* when both are empty.  input = <<user, id, host, ip>>.
C8_HostAndIP ==
    (op = "parseUserHostLine" /\ UserHostMatchEnd(arg, Len("# ") + 1) > 0) =>
        /\ ret.kind = "event"
        /\ "IP" \in DOMAIN ret.event <=> input[4] # ""
        /\ input[4] # "" => ret.event["IP"] = <<"string", input[4]>>
        /\ input[3] # "" =>
               ("Host" \in DOMAIN ret.event /\ ret.event["Host"] = <<"string", input[3]>>)
        /\ (input[3] = "" /\ input[4] # "") =>
               ("Host" \in DOMAIN ret.event /\ ret.event["Host"] = <<"string", input[4]>>)
        /\ (input[3] = "" /\ input[4] = "") => "Host" \notin DOMAIN ret.event

\* C9: ConsumeLine yields a record if and only if the parser was in
\* QueryBody before the call and the line is empty or starts with '#'.
C9_RecordIffBoundaryInQuery ==
    op = "ConsumeLine" =>
        (ret.kind = "event" <=> (prev.inQuery /\ (arg = "" \/ IsComment(arg))))

\* C10: ConsumeLine of an empty line in QueryBody yields the record parsed
\* from the lines buffered before the call, and leaves the buffer holding
\* that empty line alone, with the parser in Idle/Header.
C10_EmptyLineClosesBlock ==
    (op = "ConsumeLine" /\ arg = "" /\ prev.inQuery) =>
        /\ ret.kind = "event"
        /\ ret = parseEntry(prev.lines)
        /\ lines = <<"">>
        /\ inHeader /\ ~inQuery

\* C11: ConsumeLine of a line starting with '#' in QueryBody yields the record
\* parsed from exactly the lines buffered before the call, and leaves the
\* buffer holding that '#' line alone, with the parser in Idle/Header.
C11_CommentLineClosesBlock ==
    (op = "ConsumeLine" /\ IsComment(arg) /\ prev.inQuery) =>
        /\ ret.kind = "event"
        /\ ret = parseEntry(prev.lines)
        /\ lines = <<arg>>
        /\ inHeader /\ ~inQuery

\* C12: ConsumeLine of an empty line outside QueryBody changes nothing: it
\* yields no record and leaves the buffer and both flags as they were, so
\* consecutive empty lines between blocks add no record and no buffered line.
C12_EmptyLineOutsideQueryIsNoop ==
    (op = "ConsumeLine" /\ arg = "" /\ ~prev.inQuery) => (ret = Nil /\ ParserUnchanged)

\* A second empty line followed the empty line that closed a block.
C12_Witness ==
    /\ op = "ConsumeLine" /\ arg = "" /\ ~prev.inQuery
    /\ prev.inHeader /\ prev.lines = <<"">>

\* C13: ConsumeLine of a line starting with '#' outside QueryBody, a new
\* parser included, appends the line to the buffer, leaves the lines buffered
\* before as they were, sets the state to Idle/Header and yields nothing.
C13_CommentLineBuffered ==
    (op = "ConsumeLine" /\ IsComment(arg) /\ ~prev.inQuery) =>
        /\ ret = Nil
        /\ lines = Append(prev.lines, arg)
        /\ inHeader /\ ~inQuery

\* A comment line was consumed with lines already buffered.
C13_Witness ==
    /\ op = "ConsumeLine" /\ IsComment(arg) /\ ~prev.inQuery
    /\ Len(prev.lines) >= 2

\* C14: Flush in QueryBody yields the record parsed from exactly the lines
\* buffered so far and leaves the buffer empty.
C14_FlushDeliversBlock ==
    (op = "Flush" /\ prev.inQuery) =>
        /\ ret.kind = "event"
        /\ ret = parseEntry(prev.lines)
        /\ lines = <<>>

\* The block is an empty line followed by lines that are neither empty nor
\* comments: what is buffered after an empty line closed a block.
HeaderlessBlock(block) ==
    /\ Len(block) >= 2
    /\ block[1] = ""
    /\ \A k \in 2..Len(block) : IsOther(block[k])

IsContext(line) == HasPrefix(line, "use ") \/ HasPrefix(line, "SET ")

\* The lines of a headerless block after the empty line and the use and SET
\* lines that follow it.
RestOfStatement(block) ==
    LET first == CHOOSE k \in 2..(Len(block) + 1) :
                     /\ \A m \in 2..(k - 1) : IsContext(block[m])
                     /\ k <= Len(block) => ~IsContext(block[k])
    IN SubSeq(block, first, Len(block))

\* C15: a statement that holds an empty line is split.  After an empty line
\* closed a block, the lines that follow, neither empty nor comments, are
\* buffered from Idle/Header as a block that starts with that empty line and
\* has no header lines; the next boundary line or Flush yields it as a record
\* of its own, with no header field, whose Statement joins lines after the
\* empty line only.
C15_EmptyLineSplitsStatement ==
    /\ (op = "ConsumeLine" /\ IsOther(arg) /\ prev.inHeader /\ prev.lines = <<"">>) =>
           /\ ret = Nil
           /\ inQuery /\ ~inHeader
           /\ lines = <<"", arg>>
    /\ (op = "ConsumeLine" /\ IsOther(arg) /\ prev.inQuery /\ HeaderlessBlock(prev.lines)) =>
           /\ ret = Nil
           /\ inQuery /\ ~inHeader
           /\ lines = Append(prev.lines, arg)
    /\ (/\ op \in {"ConsumeLine", "Flush"}
        /\ op = "ConsumeLine" => ~IsOther(arg)
        /\ prev.inQuery
        /\ HeaderlessBlock(prev.lines)) =>
           /\ ret.kind = "event"
           /\ DOMAIN ret.event \subseteq {"Statement", "Database", "Timestamp"}
           /\ ret.event["Statement"] =
                  <<"string", TrimSpace(Join(RestOfStatement(prev.lines), "\n"))>>

\* The lines after the empty line of a split statement were yielded as a
\* record of their own.
C15_Witness ==
    /\ ret.kind = "event"
    /\ prev.lines = <<"", "SELECT 1", "SELECT 1">>
    /\ ret.event["Statement"] = <<"string", "SELECT 1\nSELECT 1">>

\* C16: Flush is idempotent with respect to output: a Flush that follows at
\* once a Flush that yielded a record yields nothing.
C16_SecondFlushYieldsNothing ==
    [][(op = "Flush" /\ ret.kind = "event" /\ op' = "Flush") => ret' = Nil]_vars

HasOtherLine(block) == \E k \in 1..Len(block) : IsOther(block[k])

\* C17: whenever the parser is in QueryBody the buffer holds at least one
\* line that is neither empty nor a comment; hence every record yielded is
\* parsed from a block with such a line, and none from an empty buffer.
C17_QueryBodyHasStatementLine ==
    /\ inQuery => HasOtherLine(lines)
    /\ ret.kind = "event" => HasOtherLine(prev.lines)

\* C18: the buffer is at most one empty line, at index 0 only, then lines
\* starting with '#', then lines that are neither: no empty line and no
\* comment line is buffered after a statement line of the same block.
C18_BufferShape ==
    \A k \in 1..Len(lines) :
        /\ lines[k] = "" => k = 1
        /\ IsComment(lines[k]) => \A m \in 1..(k - 1) : ~IsOther(lines[m])

\* The buffer holds an empty line, a comment line and a statement line.
C18_Witness ==
    /\ Len(lines) >= 3
    /\ lines[1] = ""
    /\ IsComment(lines[2])
    /\ IsOther(lines[Len(lines)])

\* The numbers of the lines of the blocks that came back as records, in order.
RECURSIVE Flatten(_)
Flatten(bs) == IF bs = <<>> THEN <<>> ELSE Head(bs) \o Flatten(Tail(bs))

Emitted == Flatten(trace.blocks)

\* C19: of any lines fed and then flushed, the blocks that come back as
\* records partition the buffered input in order: no line is in more than
\* one block, the blocks follow the input order, and once Flush was called
\* every buffered line that is neither empty nor a comment is in exactly one
\* block.
C19_BlocksPartitionInput ==
    /\ \A k \in 1..Len(lines) : input[trace.held[k]] = lines[k]
    /\ \A i, j \in 1..Len(Emitted) : i < j => Emitted[i] < Emitted[j]
    /\ op = "Flush" =>
           \A n \in trace.stored :
               IsOther(input[n]) => \E i \in 1..Len(Emitted) : Emitted[i] = n

====
